---- MODULE Spec2Model ----
(***************************************************************************)
(* Model of src/bindgen/library.rs: Library::load, Library::resolve_path,  *)
(* Library::add_deps_for_path, Library::add_deps_for_path_deps,            *)
(* Library::build and the contract BuiltLibrary::write relies on.          *)
(*                                                                         *)
(* Identifiers are the integers 1..MaxName; their numeric order stands for *)
(* the byte-wise order of the Rust Strings (BTreeMap iteration order and   *)
(* String::cmp).  A type is abstracted to the path name it mentions.       *)
(* The recursion value.add_deps -> add_deps_for_path -> value.add_deps is  *)
(* modelled with an explicit call stack.                                   *)
(***************************************************************************)
EXTENDS Integers, Sequences, FiniteSets, TLC

VARIABLES
    enums, structs, opaque_structs, typedefs, specializations, prebuilts,
    functions,      \* the seven BTreeMaps of Library
    ignore,         \* the ignore set handed to load
    pending,        \* items the source walker has still to hand to load
    lastInsert,     \* the BTreeMap insert performed by the last load step
    pc,             \* position in load / build
    fnTodo,         \* functions the loop of build has still to visit
    stack,          \* call stack of the dependency collector
    deps,           \* the local `deps` of build (the `out` accumulator)
    warned,         \* names reported with "warning: can't find"
    errors,         \* names reported with "error: specializing ... failed"
    items,          \* BuiltLibrary.items
    out_functions   \* BuiltLibrary.functions

lib == <<enums, structs, opaque_structs, typedefs, specializations, prebuilts,
         functions>>
vars == <<enums, structs, opaque_structs, typedefs, specializations, prebuilts,
          functions, ignore, pending, lastInsert, pc, fnTodo, stack, deps,
          warned, errors, items, out_functions>>

(***************************************************************************)
(* Bounds                                                                  *)
(***************************************************************************)
\* Items the source walker hands to load.
MaxItems == 3

\* The identifiers items are declared under.
Names == 1..2
\* T is an identifier used as a generic parameter name; no item declares it.
T == 0
TypeNames == Names \cup {T}
\* Frames the collector may stack up before the thread's stack is exhausted.
\* An acyclic library needs at most one frame per name and the root frame.
StackLimit == Cardinality(Names) + 2

SeqsUpTo(S, n) == UNION {[1..k -> S] : k \in 0..n}

(***************************************************************************)
(* PathValue and Function                                                  *)
(***************************************************************************)
None == [kind |-> "None"]

Value(kind, name, fields, generic_params, aliased, generic_values) ==
    [kind |-> kind, name |-> name, fields |-> fields,
     generic_params |-> generic_params, aliased |-> aliased,
     generic_values |-> generic_values]

EnumValue(name) == Value("Enum", name, <<>>, <<>>, T, <<>>)
StructValue(name, fields, gp) == Value("Struct", name, fields, gp, T, <<>>)
OpaqueStructValue(name) == Value("OpaqueStruct", name, <<>>, <<>>, T, <<>>)
TypedefValue(name, aliased) == Value("Typedef", name, <<>>, <<>>, aliased, <<>>)
SpecializationValue(name, aliased, gv) ==
    Value("Specialization", name, <<>>, <<>>, aliased, gv)
PrebuiltValue(name) == Value("Prebuilt", name, <<>>, <<>>, T, <<>>)

FunctionValue(name, types) == [name |-> name, types |-> types]

\* PathValue::name
name(v) == v.name

(***************************************************************************)
(* BTreeMap                                                                *)
(***************************************************************************)
EmptyMap == [k \in {} |-> None]

\* Mutation of insert: an entry already present is kept.
insert_keep_first(m, k, v) ==
    [x \in DOMAIN m \cup {k} |-> IF x \in DOMAIN m THEN m[x] ELSE v]

\* BTreeMap::insert: the value replaces the one stored under the key.
insert(m, k, v) ==
    [x \in DOMAIN m \cup {k} |-> IF x = k THEN v ELSE m[x]]

\* BTreeMap::get
get(m, k) == IF k \in DOMAIN m THEN m[k] ELSE None

\* The keys of a BTreeMap in iteration order (ascending).
RECURSIVE keys_in_order(_)
keys_in_order(S) ==
    IF S = {} THEN <<>>
    ELSE LET k == CHOOSE x \in S : \A y \in S : x <= y
         IN <<k>> \o keys_in_order(S \ {k})

(***************************************************************************)
(* Library::blank and Library::load                                        *)
(***************************************************************************)
NoInsert == [map |-> "none", key |-> T, value |-> None, old |-> None]
Inserted(map, k, v, old) == [map |-> map, key |-> k, value |-> v, old |-> old]

\* What the converters of bindgen/items.rs and the caller of load can hand
\* over: a function mentions up to two declared names, a struct has up to
\* one field and one generic parameter, an alias up to one type argument;
\* up to one name is ignored and up to one prebuilt supplied.
FunctionTypeLists == SeqsUpTo(Names, 2)
FieldLists == SeqsUpTo(TypeNames, 1)
GenericParamLists == {<<>>, <<T>>}
GenericValueLists == SeqsUpTo(TypeNames, 1)
IgnoreSets == {S \in SUBSET Names : Cardinality(S) <= 1}
PrebuiltLists == SeqsUpTo(Names, 1)

blank ==
    /\ enums = EmptyMap
    /\ structs = EmptyMap
    /\ opaque_structs = EmptyMap
    /\ typedefs = EmptyMap
    /\ specializations = EmptyMap
    /\ prebuilts = EmptyMap
    /\ functions = EmptyMap

Init ==
    /\ blank
    /\ ignore \in IgnoreSets
    /\ pending = MaxItems
    /\ lastInsert = NoInsert
    /\ pc = "load"
    /\ fnTodo = <<>>
    /\ stack = <<>>
    /\ deps = <<>>
    /\ warned = {}
    /\ errors = {}
    /\ items = <<>>
    /\ out_functions = <<>>

buildVars == <<fnTodo, stack, deps, warned, errors, items, out_functions>>

LoadStep ==
    /\ pc = "load"
    /\ pending > 0
    /\ pending' = pending - 1
    /\ UNCHANGED <<ignore, pc, buildVars>>

\* An item whose identifier is in the ignore set.
LoadIgnored ==
    /\ LoadStep
    /\ \E ident \in ignore : TRUE
    /\ lastInsert' = NoInsert
    /\ UNCHANGED lib

\* ItemKind::Fn
LoadFn ==
    /\ LoadStep
    /\ \E ident \in Names \ ignore :
         \/ \* not no_mangle, not extern "C", or Function::convert fails
            /\ functions' = functions
            /\ lastInsert' = NoInsert
         \/ \E types \in FunctionTypeLists :
              LET func == FunctionValue(ident, types)
              IN /\ functions' = insert(functions, func.name, func)
                 /\ lastInsert' = Inserted("functions", func.name, func,
                                           get(functions, func.name))
    /\ UNCHANGED <<enums, structs, opaque_structs, typedefs, specializations,
                   prebuilts>>

\* ItemKind::Struct
LoadStruct ==
    /\ LoadStep
    /\ \E ident \in Names \ ignore :
         \/ \* repr(C) and Struct::convert succeeds
            \E fields \in FieldLists, gp \in GenericParamLists :
              LET st == StructValue(ident, fields, gp)
              IN /\ structs' = insert(structs, ident, st)
                 /\ lastInsert' = Inserted("structs", ident, st,
                                           get(structs, ident))
                 /\ UNCHANGED opaque_structs
         \/ \* repr(C) and Struct::convert fails, or not repr(C)
            LET op == OpaqueStructValue(ident)
            IN /\ opaque_structs' = insert(opaque_structs, ident, op)
               /\ lastInsert' = Inserted("opaque_structs", ident, op,
                                         get(opaque_structs, ident))
               /\ UNCHANGED structs
    /\ UNCHANGED <<enums, typedefs, specializations, prebuilts, functions>>

\* ItemKind::Enum
LoadEnum ==
    /\ LoadStep
    /\ \E ident \in Names \ ignore :
         \/ \* generics, not repr(u32), or Enum::convert fails
            /\ enums' = enums
            /\ lastInsert' = NoInsert
         \/ LET en == EnumValue(ident)
            IN /\ enums' = insert(enums, ident, en)
               /\ lastInsert' = Inserted("enums", ident, en, get(enums, ident))
    /\ UNCHANGED <<structs, opaque_structs, typedefs, specializations,
                   prebuilts, functions>>

\* ItemKind::Ty
LoadTy ==
    /\ LoadStep
    /\ \E ident \in Names \ ignore :
         \/ \* generics, or both conversions fail
            /\ lastInsert' = NoInsert
            /\ UNCHANGED <<specializations, typedefs>>
         \/ \* Specialization::convert succeeds
            \E aliased \in Names, gv \in GenericValueLists :
              LET spec == SpecializationValue(ident, aliased, gv)
              IN /\ specializations' = insert(specializations, ident, spec)
                 /\ lastInsert' = Inserted("specializations", ident, spec,
                                           get(specializations, ident))
                 /\ UNCHANGED typedefs
         \/ \* Specialization::convert fails and Typedef::convert succeeds
            \E aliased \in Names :
              LET typedef == TypedefValue(ident, aliased)
              IN /\ typedefs' = insert(typedefs, ident, typedef)
                 /\ lastInsert' = Inserted("typedefs", ident, typedef,
                                           get(typedefs, ident))
                 /\ UNCHANGED specializations
    /\ UNCHANGED <<enums, structs, opaque_structs, prebuilts, functions>>

\* Any other ItemKind.
LoadOther ==
    /\ LoadStep
    /\ lastInsert' = NoInsert
    /\ UNCHANGED lib

RECURSIVE insert_prebuilts(_, _)
insert_prebuilts(m, list) ==
    IF list = <<>> THEN m
    ELSE insert_prebuilts(insert(m, Head(list), PrebuiltValue(Head(list))),
                          Tail(list))

\* The source walker has no more items: the prebuilts are inserted and load
\* returns the library.
LoadPrebuilts ==
    /\ pc = "load"
    /\ \E list \in PrebuiltLists :
         prebuilts' = insert_prebuilts(prebuilts, list)
    /\ pending' = 0
    /\ lastInsert' = NoInsert
    /\ pc' = "loaded"
    /\ UNCHANGED <<enums, structs, opaque_structs, typedefs, specializations,
                   functions, ignore, buildVars>>

(***************************************************************************)
(* Library::resolve_path                                                   *)
(***************************************************************************)
\* Mutation of resolve_path: the enums are searched before the prebuilts.
resolve_path_enums_first(p) ==
    IF p \in DOMAIN enums THEN enums[p]
    ELSE IF p \in DOMAIN prebuilts THEN prebuilts[p]
    ELSE IF p \in DOMAIN structs THEN structs[p]
    ELSE IF p \in DOMAIN opaque_structs THEN opaque_structs[p]
    ELSE IF p \in DOMAIN typedefs THEN typedefs[p]
    ELSE IF p \in DOMAIN specializations THEN specializations[p]
    ELSE None

resolve_path(p) ==
    IF p \in DOMAIN prebuilts THEN prebuilts[p]
    ELSE IF p \in DOMAIN enums THEN enums[p]
    ELSE IF p \in DOMAIN structs THEN structs[p]
    ELSE IF p \in DOMAIN opaque_structs THEN opaque_structs[p]
    ELSE IF p \in DOMAIN typedefs THEN typedefs[p]
    ELSE IF p \in DOMAIN specializations THEN specializations[p]
    ELSE None

(***************************************************************************)
(* The items' side of the collector (bindgen/items.rs)                     *)
(***************************************************************************)
RECURSIVE without_generics(_, _)
without_generics(types, gp) ==
    IF types = <<>> THEN <<>>
    ELSE IF \E i \in 1..Len(gp) : gp[i] = Head(types)
         THEN without_generics(Tail(types), gp)
         ELSE <<Head(types)>> \o without_generics(Tail(types), gp)

\* The names a value's add_deps hands to the library, in order.  For a
\* Specialization the first one is the aliased template.
add_deps(v) ==
    IF v.kind = "Struct" THEN without_generics(v.fields, v.generic_params)
    ELSE IF v.kind = "Typedef" THEN <<v.aliased>>
    ELSE IF v.kind = "Specialization" THEN <<v.aliased>> \o v.generic_values
    ELSE <<>>

\* Function::add_deps: the names of the return and parameter types.
function_add_deps(f) == f.types

RECURSIVE substitute(_, _, _)
substitute(types, gp, gv) ==
    IF types = <<>> THEN <<>>
    ELSE LET t == Head(types)
             hit == {i \in 1..Len(gp) : gp[i] = t}
         IN <<IF hit = {} THEN t
               ELSE gv[CHOOSE i \in hit : \A j \in hit : i <= j]>>
            \o substitute(Tail(types), gp, gv)

\* Specialization::specialize
specialize(s) ==
    LET aliased == resolve_path(s.aliased)
    IN IF aliased.kind = "Struct"
       THEN IF Len(s.generic_values) # Len(aliased.generic_params)
            THEN [ok |-> FALSE, value |-> None]
            ELSE [ok |-> TRUE,
                  value |-> StructValue(s.name,
                                substitute(aliased.fields,
                                           aliased.generic_params,
                                           s.generic_values), <<>>)]
       ELSE IF aliased.kind = "Enum"
       THEN IF Len(s.generic_values) # 0
            THEN [ok |-> FALSE, value |-> None]
            ELSE [ok |-> TRUE, value |-> EnumValue(s.name)]
       ELSE [ok |-> FALSE, value |-> None]

(***************************************************************************)
(* Library::add_deps_for_path, Library::add_deps_for_path_deps             *)
(***************************************************************************)
Frame(mode, value, todo) == [mode |-> mode, value |-> value, todo |-> todo]

Top == stack[Len(stack)]
Below == SubSeq(stack, 1, Len(stack) - 1)
DepNames(out) == {out[i].name : i \in 1..Len(out)}

\* Mutation of push_if_absent: the value is pushed without the check.
push_always(out, value) == Append(out, value)

\* Lines 246-248: the value is pushed unless out holds its name.
push_if_absent(out, value) ==
    IF ~ \E i \in 1..Len(out) : name(out[i]) = name(value)
    THEN Append(out, value)
    ELSE out

\* The head of the top frame's todo is the aliased template of the
\* Specialization the frame is for.
AtAliasedEdge ==
    /\ Top.mode # "fn"
    /\ Top.value.kind = "Specialization"
    /\ Len(Top.todo) = Len(add_deps(Top.value))

\* A call made by the top frame: it resolves p and, if found, enters
\* value.add_deps (a new frame); the caller continues with the rest.
Call(mode) ==
    /\ pc = "collect"
    /\ stack # <<>>
    /\ Top.todo # <<>>
    /\ LET p == Head(Top.todo)
           value == resolve_path(p)
           caller == [Top EXCEPT !.todo = Tail(@)]
       IN IF Len(stack) >= StackLimit
          THEN /\ pc' = "stack_overflow"
               /\ UNCHANGED <<stack, warned>>
          ELSE /\ pc' = pc
               /\ IF value # None
                  THEN /\ stack' = Below \o <<caller, Frame(mode, value,
                                                        add_deps(value))>>
                       /\ UNCHANGED warned
                  ELSE /\ stack' = Below \o <<caller>>
                       /\ warned' = warned \cup {p}
    /\ UNCHANGED <<lib, ignore, pending, lastInsert, fnTodo, deps, errors,
                   items, out_functions>>

add_deps_for_path ==
    /\ stack # <<>>
    /\ Call("path")

\* add_deps_for_path_deps has no caller in library.rs; the one entity that
\* names another without needing it emitted is a Specialization naming its
\* template, which may use either entry point.
add_deps_for_path_deps ==
    /\ stack # <<>>
    /\ Top.todo # <<>>
    /\ AtAliasedEdge
    /\ Call("deps")

\* value.add_deps has returned inside add_deps_for_path.
add_deps_for_path_return ==
    /\ pc = "collect"
    /\ stack # <<>>
    /\ Top.todo = <<>>
    /\ Top.mode = "path"
    /\ deps' = push_if_absent(deps, Top.value)
    /\ stack' = Below
    /\ UNCHANGED <<lib, ignore, pending, lastInsert, pc, fnTodo, warned,
                   errors, items, out_functions>>

\* value.add_deps has returned inside add_deps_for_path_deps.
add_deps_for_path_deps_return ==
    /\ pc = "collect"
    /\ stack # <<>>
    /\ Top.todo = <<>>
    /\ Top.mode = "deps"
    /\ stack' = Below
    /\ UNCHANGED <<lib, ignore, pending, lastInsert, pc, fnTodo, deps, warned,
                   errors, items, out_functions>>

(***************************************************************************)
(* Library::build                                                          *)
(***************************************************************************)
RECURSIVE values_in_order(_, _)
values_in_order(m, ks) ==
    IF ks = <<>> THEN <<>>
    ELSE <<m[Head(ks)]>> \o values_in_order(m, Tail(ks))

\* Mutation of new_deps: the list starts with every struct of the library.
new_deps_all_structs ==
    values_in_order(structs, keys_in_order(DOMAIN structs))

\* Line 267: let mut deps = Vec::new()
new_deps == <<>>

\* build is entered.
build_start ==
    /\ pc = "loaded"
    /\ pc' = "collect"
    /\ deps' = new_deps
    /\ items' = <<>>
    /\ out_functions' = <<>>
    /\ fnTodo' = keys_in_order(DOMAIN functions)
    /\ UNCHANGED <<lib, ignore, pending, lastInsert, stack, warned, errors>>

\* Lines 268-270: the next function of the loop calls function.add_deps.
build_function_add_deps ==
    /\ pc = "collect"
    /\ stack = <<>>
    /\ fnTodo # <<>>
    /\ stack' = <<Frame("fn", None,
                        function_add_deps(functions[Head(fnTodo)]))>>
    /\ fnTodo' = Tail(fnTodo)
    /\ UNCHANGED <<lib, ignore, pending, lastInsert, pc, deps, warned, errors,
                   items, out_functions>>

\* function.add_deps returns.
build_function_return ==
    /\ pc = "collect"
    /\ stack # <<>>
    /\ Top.todo = <<>>
    /\ Top.mode = "fn"
    /\ stack' = Below
    /\ UNCHANGED <<lib, ignore, pending, lastInsert, pc, fnTodo, deps, warned,
                   errors, items, out_functions>>

\* Mutation of build_item: the `continue` of line 291 is missing.
build_item_no_continue(dep) ==
    IF dep.kind = "Struct" /\ dep.generic_params # <<>> THEN <<>>
    ELSE IF dep.kind = "Specialization"
    THEN (IF specialize(dep).ok THEN <<specialize(dep).value>> ELSE <<>>)
         \o <<dep>>
    ELSE <<dep>>

\* Lines 276-295: what one dep contributes to result.items.
build_item(dep) ==
    IF dep.kind = "Struct" /\ dep.generic_params # <<>> THEN <<>>
    ELSE IF dep.kind = "Specialization"
    THEN IF specialize(dep).ok THEN <<specialize(dep).value>> ELSE <<>>
    ELSE <<dep>>

RECURSIVE build_items(_)
build_items(ds) ==
    IF ds = <<>> THEN <<>>
    ELSE build_item(Head(ds)) \o build_items(Tail(ds))

specialize_failures(ds) ==
    {ds[i].name : i \in {j \in 1..Len(ds) :
        ds[j].kind = "Specialization" /\ ~specialize(ds[j]).ok}}

\* Lines 275-296: the loop over deps.
build_copy_items ==
    /\ pc = "collect"
    /\ stack = <<>>
    /\ fnTodo = <<>>
    /\ items' = build_items(deps)
    /\ errors' = specialize_failures(deps)
    /\ pc' = "sort"
    /\ UNCHANGED <<lib, ignore, pending, lastInsert, fnTodo, stack, deps,
                   warned, out_functions>>

\* Mutation of compare: every pair is ordered by name.
compare_all_by_name(a, b) ==
    IF a.name < b.name THEN "Less"
    ELSE IF a.name > b.name THEN "Greater" ELSE "Equal"

\* Mutation of compare: enums are ordered by descending name.
compare_enums_descending(a, b) ==
    IF a.kind = "Enum" /\ b.kind = "Enum"
    THEN IF a.name > b.name THEN "Less"
         ELSE IF a.name < b.name THEN "Greater" ELSE "Equal"
    ELSE IF a.kind = "Enum" THEN "Less"
    ELSE IF b.kind = "Enum" THEN "Greater"
    ELSE "Equal"

\* Lines 302-307: the comparator handed to sort_by.
compare(a, b) ==
    IF a.kind = "Enum" /\ b.kind = "Enum"
    THEN IF a.name < b.name THEN "Less"
         ELSE IF a.name > b.name THEN "Greater" ELSE "Equal"
    ELSE IF a.kind = "Enum" THEN "Less"
    ELSE IF b.kind = "Enum" THEN "Greater"
    ELSE "Equal"

\* x is put before the first element it is Less than.
RECURSIVE insert_sorted(_, _)
insert_sorted(sorted, x) ==
    IF sorted = <<>> THEN <<x>>
    ELSE IF compare(x, Head(sorted)) = "Less" THEN <<x>> \o sorted
    ELSE <<Head(sorted)>> \o insert_sorted(Tail(sorted), x)

\* Vec::sort_by: a stable sort.
RECURSIVE sort_by(_)
sort_by(s) ==
    IF s = <<>> THEN <<>>
    ELSE insert_sorted(sort_by(SubSeq(s, 1, Len(s) - 1)), s[Len(s)])

\* Lines 301-314: the enums are hoisted, the functions copied, Ok returned.
build_sort ==
    /\ pc = "sort"
    /\ items' = sort_by(items)
    /\ out_functions' = values_in_order(functions,
                                        keys_in_order(DOMAIN functions))
    /\ pc' = "done"
    /\ UNCHANGED <<lib, ignore, pending, lastInsert, fnTodo, stack, deps,
                   warned, errors>>

(***************************************************************************)
(* BuiltLibrary::write                                                     *)
(***************************************************************************)
\* Lines 341-354: every item is rendered; a Specialization panics.
write ==
    /\ pc = "done"
    /\ pc' = IF \E i \in 1..Len(items) : items[i].kind = "Specialization"
             THEN "panic"
             ELSE "written"
    /\ UNCHANGED <<lib, ignore, pending, lastInsert, fnTodo, stack, deps,
                   warned, errors, items, out_functions>>

Next ==
    \/ LoadIgnored
    \/ LoadFn
    \/ LoadStruct
    \/ LoadEnum
    \/ LoadTy
    \/ LoadOther
    \/ LoadPrebuilts
    \/ build_start
    \/ build_function_add_deps
    \/ add_deps_for_path
    \/ add_deps_for_path_deps
    \/ add_deps_for_path_return
    \/ add_deps_for_path_deps_return
    \/ build_function_return
    \/ build_copy_items
    \/ build_sort
    \/ write

Spec == Init /\ [][Next]_vars

(***************************************************************************)
(* Reference graph of the library, computed independently of the collector *)
(***************************************************************************)
Elems(s) == {s[i] : i \in 1..Len(s)}
Built == pc \in {"done", "written"}
Count(list, n) == Cardinality({i \in 1..Len(list) : list[i].name = n})
Pos(list, n) == CHOOSE i \in 1..Len(list) : list[i].name = n

\* Names the exported functions' parameter/return types mention.
RootNames == UNION {Elems(functions[f].types) : f \in DOMAIN functions}

\* Every name a resolved entity mentions (fields other than its own generic
\* parameters, alias target, template, type arguments).
Mentions(v) ==
    IF v.kind = "Struct" THEN Elems(v.fields) \ Elems(v.generic_params)
    ELSE IF v.kind = "Typedef" THEN {v.aliased}
    ELSE IF v.kind = "Specialization"
    THEN {v.aliased} \cup Elems(v.generic_values)
    ELSE {}

\* The same without the template of a Specialization.
MentionsToEmit(v) ==
    IF v.kind = "Specialization" THEN Elems(v.generic_values)
    ELSE Mentions(v)

Resolvable(S) == {n \in S : resolve_path(n) # None}

RECURSIVE Closure(_, _)
Closure(S, n) ==
    IF n = 0 THEN S
    ELSE Closure(S \cup UNION {Mentions(resolve_path(x)) : x \in Resolvable(S)},
                 n - 1)

\* Names reachable from the exported functions by following mentioned names.
Reachable == Closure(RootNames, Cardinality(TypeNames))

\* Reachable names other than those reached only as a template.
ReachableToEmit ==
    RootNames \cup
    UNION {MentionsToEmit(resolve_path(x)) : x \in Resolvable(Reachable)}

IsTemplate(v) == v.kind = "Struct" /\ v.generic_params # <<>>
FailsToSpecialize(v) == v.kind = "Specialization" /\ ~specialize(v).ok

(***************************************************************************)
(* C1                                                                      *)
(***************************************************************************)
\* C1 (as stated): every resolvable entity named by an exported function's
\* parameter/return types is in the item list build returns exactly once.
ClosureCompleteOriginal ==
    Built => \A E \in Resolvable(RootNames) : Count(items, E) = 1

\* C1 (amended): every resolvable entity named by an exported function's
\* types, directly or through struct fields, typedef targets and
\* specialization arguments, that is neither a Struct with generic
\* parameters nor a Specialization whose specialize fails, has exactly one
\* item of its name in the list build returns.
ClosureComplete ==
    Built => \A E \in Resolvable(ReachableToEmit) :
                LET v == resolve_path(E)
                IN (~IsTemplate(v) /\ ~FailsToSpecialize(v))
                      => Count(items, E) = 1

\* An entity reached only through another one (not named by any function
\* itself) is emitted, next to a template that was dropped.
ClosureCompleteWitness ==
    /\ Built
    /\ \E E \in Resolvable(ReachableToEmit) \ RootNames : Count(items, E) = 1
    /\ Len(items) < Len(deps)

(***************************************************************************)
(* C2                                                                      *)
(***************************************************************************)
\* C2: the item list build produces holds no Specialization, and write
\* never reaches its panic branch.
NoResidualSpecialization ==
    /\ \A i \in 1..Len(items) : items[i].kind # "Specialization"
    /\ pc # "panic"

\* write has run on a library whose closure held a Specialization that was
\* replaced by its specialized value.
NoResidualSpecializationWitness ==
    /\ pc = "written"
    /\ \E i \in 1..Len(deps) :
         /\ deps[i].kind = "Specialization"
         /\ specialize(deps[i]).ok
         /\ Count(items, deps[i].name) = 1

(***************************************************************************)
(* C3                                                                      *)
(***************************************************************************)
\* C3: in the list build returns every Enum precedes every non-Enum and the
\* Enums are in ascending order of name.
EnumHoisting ==
    Built => \A i, j \in 1..Len(items) :
                i < j => /\ ~(items[i].kind # "Enum" /\ items[j].kind = "Enum")
                         /\ (items[i].kind = "Enum" /\ items[j].kind = "Enum")
                               => items[i].name < items[j].name

\* The sort had to move something: the list before the sort differs, and it
\* holds two Enums or an Enum and a non-Enum.
EnumHoistingWitness ==
    /\ Built
    /\ build_items(deps) # items
    /\ \E i \in 1..Len(items) : items[i].kind = "Enum"
    /\ Len(items) >= 2

(***************************************************************************)
(* C4                                                                      *)
(***************************************************************************)
Collections ==
    <<prebuilts, enums, structs, opaque_structs, typedefs, specializations>>
Containing(p) == {c \in 1..Len(Collections) : p \in DOMAIN Collections[c]}
FirstContaining(p) ==
    Collections[CHOOSE c \in Containing(p) : \A d \in Containing(p) : c <= d][p]

\* C4: every resolution the collector made returned the entry of the first
\* collection, in the order prebuilt, enum, struct, opaque struct, typedef,
\* specialization, that contains the name; it reported "can't find" exactly
\* for names no collection contains; and no derived entity whose name a
\* prebuilt has is in the closure or the item list.
ResolutionPrecedence ==
    /\ stack # <<>> =>
         (Top.mode # "fn" =>
            /\ Containing(Top.value.name) # {}
            /\ Top.value = FirstContaining(Top.value.name))
    /\ \A p \in warned : Containing(p) = {}
    /\ \A i \in 1..Len(deps) :
         /\ deps[i] = FirstContaining(deps[i].name)
         /\ deps[i].name \in DOMAIN prebuilts => deps[i].kind = "Prebuilt"
    /\ \A i \in 1..Len(items) :
         items[i].name \in DOMAIN prebuilts => items[i].kind = "Prebuilt"
    /\ (Built /\ stack = <<>>) =>
          \A p \in Reachable : Containing(p) = {} => p \in warned

\* A prebuilt and a derived entity share a name a function mentions, and the
\* built list holds the prebuilt.
ResolutionPrecedenceWitness ==
    /\ Built
    /\ \E i \in 1..Len(items) :
         /\ items[i].kind = "Prebuilt"
         /\ Cardinality(Containing(items[i].name)) >= 2

(***************************************************************************)
(* C5                                                                      *)
(***************************************************************************)
MapNamed(m) ==
    CASE m = "functions" -> functions
      [] m = "structs" -> structs
      [] m = "opaque_structs" -> opaque_structs
      [] m = "enums" -> enums
      [] m = "typedefs" -> typedefs
      [] m = "specializations" -> specializations

EntityCount ==
    Cardinality(DOMAIN functions) + Cardinality(DOMAIN structs)
    + Cardinality(DOMAIN opaque_structs) + Cardinality(DOMAIN enums)
    + Cardinality(DOMAIN typedefs) + Cardinality(DOMAIN specializations)
    + Cardinality(DOMAIN prebuilts)

Pruning ==
    (deps # <<>> \/ items # <<>>) =>
       DepNames(deps) \cup DepNames(items) \subseteq Reachable

\* The build returned a non-empty list while the symbol table holds an
\* entity no function reaches.
PruningWitness ==
    /\ Built
    /\ items # <<>>
    /\ \E n \in Resolvable(Names) : n \notin Reachable

(***************************************************************************)
(* C7                                                                      *)
(***************************************************************************)
\* C7: build returns Ok for every library (it is never aborted); a name that
\* does not resolve contributes no item, a Specialization whose specialize
\* fails is omitted, and every other emittable entity of the closure is in
\* the result.
BuildAlwaysReturnsOk ==
    /\ pc \notin {"stack_overflow", "panic"}
    /\ Built =>
          /\ \A p \in warned : Count(items, p) = 0
          /\ \A p \in errors : Count(items, p) = 0
          /\ \A i \in 1..Len(deps) :
               (~IsTemplate(deps[i]) /\ deps[i].name \notin errors)
                  => Count(items, deps[i].name) = 1

(***************************************************************************)
(* C8                                                                      *)
(***************************************************************************)
\* C8: a call of add_deps_for_path for an entity already in out does not
\* recurse into that entity's dependencies, and out never holds two entries
\* of one name.
NoReprocessing ==
    /\ \A i \in 1..Len(stack) :
         (i < Len(stack) /\ stack[i].mode = "path")
            => stack[i].value.name \notin DepNames(deps)
    /\ \A n \in DepNames(deps) : Count(deps, n) = 1

(***************************************************************************)
(* C9                                                                      *)
(***************************************************************************)
DeclaredNames == {n \in TypeNames : Containing(n) # {}}

\* C9: the dependency collection terminates: its recursion never goes deeper
\* than the number of declared entities (plus the frame of the function) and
\* never exhausts the stack.
CollectionTerminates ==
    /\ Len(stack) <= Cardinality(DeclaredNames) + 1
    /\ pc # "stack_overflow"

(***************************************************************************)
(* C10                                                                     *)
(***************************************************************************)
\* C10: in the list build returns every item comes after every item it
\* references, and the non-Enum items are in the order the collector
\* discovered them.
DependencyBeforeDependent ==
    Built =>
       /\ \A i, j \in 1..Len(items) :
            items[j].name \in Mentions(items[i]) => j < i
       /\ \A i, j \in 1..Len(items) :
            (i < j /\ items[i].kind # "Enum" /\ items[j].kind # "Enum")
               => Pos(deps, items[i].name) < Pos(deps, items[j].name)

\* The list holds a non-Enum item that references another non-Enum item.
DependencyBeforeDependentWitness ==
    /\ Built
    /\ \E i, j \in 1..Len(items) :
         /\ items[j].name \in Mentions(items[i])
         /\ items[i].kind # "Enum"
         /\ items[j].kind # "Enum"
====
